---- MODULE Spec2Model ----
(***************************************************************************)
(* A model of the selection-bias meme pipeline:                            *)
(*   step5_create_masked.py        create_masked_stipple                   *)
(*   step4_create_block_letter.py  create_block_letter_s                   *)
(*   create_meme.py                create_statistics_meme                  *)
(*   generate_meme.py              the top-level script                    *)
(* Each component has its own specification (SpecMask, SpecGlyph,          *)
(* SpecPanel, SpecPipe); the variables of the other components stay idle.  *)
(*                                                                         *)
(* numpy arrays are objects on a heap, named by references, so that        *)
(* copying and aliasing are visible.  Pixel values are the fractions       *)
(* k / Scale, k \in 0..Scale, stored as the integer k; 1.0 is White.       *)
(***************************************************************************)
EXTENDS Integers, Sequences, FiniteSets, TLC

\* ------------------------------------------------------------------ bounds
\* Arrays of the compositor hold at most MaxPix pixels (height * width).
MaxPix == 2
\* Pixel values are k / Scale for k in 0..Scale.
Scale == 2
\* Canvas heights and widths of the glyph generator and of the panels.
MaxDim == 3
\* font_size_ratio is k / 2^RatioBits, a ratio whose product with an integer
\* is exact in double precision.
RatioBits == 3
\* Bounding-box coordinates reported by the text renderer.
MaxGlyph == 3

VARIABLES
    \* ---- create_masked_stipple and its caller
    heap,            \* reference -> array, or NoArray when not allocated
    stipple_img,     \* argument: reference of the stipple array
    mask_img,        \* argument: reference of the mask array
    threshold,       \* argument
    masked_stipple,  \* reference returned by the call, None before / on error
    masked_again,    \* reference returned by the call on its own output
    num_removed,     \* reported statistics of the last call
    num_preserved,
    mexc,            \* exception raised by the call, "none" otherwise
    mpc              \* position of the caller

maskVars == <<heap, stipple_img, mask_img, threshold, masked_stipple,
              masked_again, num_removed, num_preserved, mexc, mpc>>

VARIABLES
    \* ---- create_block_letter_s
    height, width,   \* arguments
    ratio_num,       \* font_size_ratio = ratio_num / RatioDen
    font_size,       \* the size requested from the font loader
    attempts,        \* the loads tried so far: [cand, outcome], in order
    font,            \* the font object in use, "" before a load succeeds
    api,             \* how the glyph was measured
    bbox,            \* textbbox's result (left, top, right, bottom)
    text_size,       \* (text_width, text_height)
    x, y,            \* the draw position handed to draw.text
    img_array,       \* shape of the returned array, <<>> before / on error
    gpc              \* position inside the function

glyphVars == <<height, width, ratio_num, font_size, attempts, font, api, bbox,
               text_size, x, y, img_array, gpc>>

VARIABLES
    \* ---- create_statistics_meme
    pheap,           \* reference -> panel array (its shape), or NoPanel
    images,          \* the local list of the four panels (references)
    ref_shape,       \* (h, w) = original_img.shape
    pidx,            \* loop index of the check-and-resize loop (1-based)
    warnings,        \* indices of the panels a warning was printed for
    plotted,         \* shapes of the panels handed to imshow, in order
    saved,           \* TRUE once savefig has written output_path
    ppc              \* position inside the function

panelVars == <<pheap, images, ref_shape, pidx, warnings, plotted, saved, ppc>>

VARIABLES
    \* ---- generate_meme.py
    spc,             \* position of the script: [stage, at]
    started,         \* the stages called so far, in order
    completed,       \* the stages that have returned
    failed,          \* the stage that raised, "" if none
    gray_image,      \* shapes of the values the script holds, <<>> if unset
    stipple_pattern,
    block_letter,
    masked,
    output_written   \* TRUE once statistics_meme.png has been written

pipeVars == <<spc, started, completed, failed, gray_image, stipple_pattern,
              block_letter, masked, output_written>>

vars == <<maskVars, glyphVars, panelVars, pipeVars>>

None == 0
NoArray == [h |-> 0, w |-> 0, px |-> <<>>]

\* The values the variables of a component hold while another one runs.
IdleMask ==
    /\ heap = <<>> /\ stipple_img = None /\ mask_img = None /\ threshold = 0
    /\ masked_stipple = None /\ masked_again = None
    /\ num_removed = 0 /\ num_preserved = 0 /\ mexc = "none" /\ mpc = "idle"

IdleGlyph ==
    /\ height = 0 /\ width = 0 /\ ratio_num = 0 /\ font_size = 0
    /\ attempts = <<>> /\ font = "" /\ api = "" /\ bbox = <<>>
    /\ text_size = <<>> /\ x = 0 /\ y = 0 /\ img_array = <<>> /\ gpc = "idle"

IdlePanel ==
    /\ pheap = <<>> /\ images = <<>> /\ ref_shape = <<>> /\ pidx = 0
    /\ warnings = <<>> /\ plotted = <<>> /\ saved = FALSE /\ ppc = "idle"

IdlePipe ==
    /\ spc = [stage |-> "", at |-> "idle"] /\ started = <<>> /\ completed = {}
    /\ failed = "" /\ gray_image = <<>> /\ stipple_pattern = <<>>
    /\ block_letter = <<>> /\ masked = <<>> /\ output_written = FALSE

\* =====================================================================
\* Masked Compositor: step5_create_masked.py
\* =====================================================================
White == Scale
Values == 0..Scale
Refs == 1..4

Shapes == {s \in (1..MaxPix) \X (1..MaxPix) : s[1] * s[2] <= MaxPix}

\* A 2D array: its shape and its pixels in row-major order.
Arrays == UNION {[h : {s[1]}, w : {s[2]}, px : [1..(s[1] * s[2]) -> Values]] : s \in Shapes}

ShapeOf(a) == <<a.h, a.w>>

FreshRef(hp) == CHOOSE r \in Refs : hp[r] = NoArray /\ \A q \in Refs : q < r => hp[q] # NoArray

\* stipple_img.shape != mask_img.shape, compared on the height only.
ShapesDifferHeightOnly(a, b) == a.h # b.h

ShapesDiffer(a, b) == ShapeOf(a) # ShapeOf(b)

\* "masked_stipple = stipple_img": no copy, the result aliases the input.
CopyAlias(hp, r) == [heap |-> hp, ref |-> r]

\* ndarray.copy(): a new array with the same shape and pixels.
Copy(hp, r) == [heap |-> [hp EXCEPT ![FreshRef(hp)] = hp[r]], ref |-> FreshRef(hp)]

\* mask_img <= threshold
MaskAreaInclusive(m, t) == {p \in DOMAIN m.px : m.px[p] <= t}

\* mask_area = mask_img < threshold
MaskArea(m, t) == {p \in DOMAIN m.px : m.px[p] < t}

\* masked_stipple[mask_area] = 1.0 - masked_stipple[mask_area]
AssignInverted(a, area) ==
    [a EXCEPT !.px = [p \in DOMAIN a.px |-> IF p \in area THEN White - a.px[p] ELSE a.px[p]]]

\* masked_stipple[mask_area] = 0.0
AssignBlack(a, area) ==
    [a EXCEPT !.px = [p \in DOMAIN a.px |-> IF p \in area THEN 0 ELSE a.px[p]]]

\* masked_stipple[mask_area] = 1.0
AssignWhite(a, area) ==
    [a EXCEPT !.px = [p \in DOMAIN a.px |-> IF p \in area THEN White ELSE a.px[p]]]

\* The whole call: the heap after it, the reference returned (None when it
\* raises), the exception, and the two statistics it reports.
create_masked_stipple(hp, s, m, t) ==
    IF ShapesDiffer(hp[s], hp[m])
    THEN [heap |-> hp, ret |-> None, exc |-> "ValueError",
          num_removed |-> 0, num_preserved |-> 0]
    ELSE LET c    == Copy(hp, s)
             area == MaskArea(c.heap[m], t)
             all  == DOMAIN c.heap[m].px
         IN  [heap |-> [c.heap EXCEPT ![c.ref] = AssignWhite(@, area)],
              ret |-> c.ref, exc |-> "none",
              num_removed |-> Cardinality(area),
              num_preserved |-> Cardinality(all \ area)]

Thresholds == 0..(Scale + 1)

\* The caller holds a stipple array and a mask array (possibly one and the
\* same object) and a threshold.
InitMask ==
    /\ stipple_img = 1
    /\ \E s \in Arrays :
          \/ \E m \in Arrays :
                /\ heap = [r \in Refs |-> IF r = 1 THEN s ELSE IF r = 2 THEN m ELSE NoArray]
                /\ mask_img = 2
          \/ /\ heap = [r \in Refs |-> IF r = 1 THEN s ELSE NoArray]
             /\ mask_img = 1
    /\ threshold \in Thresholds
    /\ masked_stipple = None
    /\ masked_again = None
    /\ num_removed = 0
    /\ num_preserved = 0
    /\ mexc = "none"
    /\ mpc = "ready"
    /\ IdleGlyph /\ IdlePanel /\ IdlePipe

\* masked = create_masked_stipple(stipple_img, mask_img, threshold)
CallMasked ==
    /\ mpc = "ready"
    /\ LET r == create_masked_stipple(heap, stipple_img, mask_img, threshold)
       IN  /\ heap' = r.heap
           /\ masked_stipple' = r.ret
           /\ mexc' = r.exc
           /\ num_removed' = r.num_removed
           /\ num_preserved' = r.num_preserved
           /\ mpc' = IF r.exc = "none" THEN "returned" ELSE "raised"
    /\ UNCHANGED <<stipple_img, mask_img, threshold, masked_again>>
    /\ UNCHANGED <<glyphVars, panelVars, pipeVars>>

\* again = create_masked_stipple(masked, mask_img, threshold)
CallMaskedAgain ==
    /\ mpc = "returned"
    /\ LET r == create_masked_stipple(heap, masked_stipple, mask_img, threshold)
       IN  /\ heap' = r.heap
           /\ masked_again' = r.ret
           /\ mexc' = r.exc
           /\ mpc' = IF r.exc = "none" THEN "returned2" ELSE "raised"
    /\ UNCHANGED <<stipple_img, mask_img, threshold, masked_stipple,
                   num_removed, num_preserved>>
    /\ UNCHANGED <<glyphVars, panelVars, pipeVars>>

\* The caller writes one pixel of the array it passed in, or of the array it
\* got back: arr[p] = v.
CallerWrite ==
    /\ mpc = "returned"
    /\ \E r \in {stipple_img, masked_stipple} : \E p \in DOMAIN heap[r].px : \E v \in Values :
          /\ heap[r].px[p] # v
          /\ heap' = [heap EXCEPT ![r].px[p] = v]
    /\ mpc' = "written"
    /\ UNCHANGED <<stipple_img, mask_img, threshold, masked_stipple, masked_again,
                   num_removed, num_preserved, mexc>>
    /\ UNCHANGED <<glyphVars, panelVars, pipeVars>>

NextMask == CallMasked \/ CallMaskedAgain \/ CallerWrite

SpecMask == InitMask /\ [][NextMask]_vars

\* ---------------------------------------------------------------- claims
\* The arrays the caller holds after a call that returned.
OutArr == heap[masked_stipple]
StippleArr == heap[stipple_img]
MaskArr == heap[mask_img]

Black(a) == {p \in DOMAIN a.px : a.px[p] = 0}
Ink(a) == {p \in DOMAIN a.px : a.px[p] < White}

\* C1: a call whose stipple and mask shapes differ raises the shape-mismatch
\* error before any masking: nothing is returned, nothing is allocated,
\* coerced or resized, and both input arrays are left as they were.
C1_ShapeMismatchRaises ==
    [][(mpc = "ready" /\ <<heap[stipple_img].h, heap[stipple_img].w>>
                          # <<heap[mask_img].h, heap[mask_img].w>>)
        => (/\ mexc' = "ValueError"
            /\ mpc' = "raised"
            /\ masked_stipple' = None
            /\ heap' = heap)]_vars

C1_Witness ==
    /\ mpc = "raised"
    /\ mexc = "ValueError"
    /\ masked_stipple = None
    /\ StippleArr.h = MaskArr.h
    /\ StippleArr.w # MaskArr.w

\* C2: for same-shape inputs the call returns an image of that shape whose
\* pixel is 1.0 where mask < threshold and the stipple value where
\* mask >= threshold; a mask pixel equal to the threshold is preserved and
\* counted as preserved.
C2_MaskSemantics ==
    /\ (mpc = "raised" => ShapeOf(StippleArr) # ShapeOf(MaskArr))
    /\ (mpc = "returned" =>
          /\ ShapeOf(OutArr) = ShapeOf(StippleArr)
          /\ ShapeOf(OutArr) = ShapeOf(MaskArr)
          /\ DOMAIN OutArr.px = 1..(StippleArr.h * StippleArr.w)
          /\ \A p \in DOMAIN OutArr.px :
                OutArr.px[p] = IF MaskArr.px[p] < threshold THEN White
                               ELSE StippleArr.px[p]
          /\ num_removed = Cardinality({p \in DOMAIN MaskArr.px : MaskArr.px[p] < threshold})
          /\ num_preserved = Cardinality({p \in DOMAIN MaskArr.px : MaskArr.px[p] >= threshold}))

C2_Witness ==
    /\ mpc = "returned"
    /\ \E p, q \in DOMAIN OutArr.px :
          /\ MaskArr.px[p] = threshold /\ StippleArr.px[p] < White
          /\ OutArr.px[p] = StippleArr.px[p]
          /\ MaskArr.px[q] < threshold /\ StippleArr.px[q] < White
          /\ OutArr.px[q] = White
    /\ num_preserved = 1 /\ num_removed = 1

\* C3: the call never mutates its inputs (whether it returns or raises), the
\* array it returns is a different object from both inputs, and a later write
\* to the stipple input or to the result is not visible in the other.
C3_InputsNotMutated ==
    [][/\ (mpc \in {"ready", "returned"} /\ mpc' \in {"returned", "returned2", "raised"})
          => (/\ heap'[stipple_img] = heap[stipple_img]
              /\ heap'[mask_img] = heap[mask_img]
              /\ (masked_stipple # None => heap'[masked_stipple] = heap[masked_stipple])
              /\ (masked_stipple' # None => masked_stipple' \notin {stipple_img, mask_img})
              /\ (masked_again' # None =>
                      masked_again' \notin {stipple_img, mask_img, masked_stipple}))
       /\ (mpc' = "written")
          => (/\ masked_stipple # stipple_img
              /\ (heap'[stipple_img] # heap[stipple_img]
                     => heap'[masked_stipple] = heap[masked_stipple])
              /\ (heap'[masked_stipple] # heap[masked_stipple]
                     => heap'[stipple_img] = heap[stipple_img]))]_vars

C3_Witness ==
    /\ mpc = "written"
    /\ \E p \in DOMAIN OutArr.px :
          /\ MaskArr.px[p] < threshold
          /\ StippleArr.px[p] = 0
          /\ OutArr.px[p] = White

\* C4: applying the call to its own output with the same mask and threshold
\* gives, pixel for pixel, the output of applying it once.
C4_Idempotent ==
    mpc = "returned2" =>
        /\ masked_again # None
        /\ ShapeOf(heap[masked_again]) = ShapeOf(OutArr)
        /\ heap[masked_again].px = OutArr.px

C4_Witness ==
    /\ mpc = "returned2"
    /\ \E p, q \in DOMAIN OutArr.px :
          /\ MaskArr.px[p] < threshold /\ StippleArr.px[p] < White
          /\ MaskArr.px[q] >= threshold /\ StippleArr.px[q] < White
          /\ heap[masked_again].px[p] = White
          /\ heap[masked_again].px[q] = StippleArr.px[q]

\* C5: masking only removes ink: every non-white pixel of the result lies
\* where mask >= threshold and has the stipple's value there, so the result
\* has at most as many black pixels as the stipple.
C5_OnlyRemovesInk ==
    mpc = "returned" =>
        /\ \A p \in DOMAIN OutArr.px :
              OutArr.px[p] < White =>
                  /\ MaskArr.px[p] >= threshold
                  /\ StippleArr.px[p] = OutArr.px[p]
        /\ Cardinality(Black(OutArr)) <= Cardinality(Black(StippleArr))
        /\ Cardinality(Ink(OutArr)) <= Cardinality(Ink(StippleArr))

C5_Witness ==
    /\ mpc = "returned"
    /\ Cardinality(Black(StippleArr)) = 2
    /\ Cardinality(Black(OutArr)) = 1

\* =====================================================================
\* Glyph Mask Generator: step4_create_block_letter.py
\* =====================================================================
RECURSIVE Pow2(_)
Pow2(n) == IF n = 0 THEN 1 ELSE 2 * Pow2(n - 1)

\* font_size_ratio is ratio_num / RatioDen.  With a power-of-two denominator
\* the double product min_dimension * font_size_ratio is the exact rational
\* (min_dimension * ratio_num) / RatioDen.
RatioDen == Pow2(RatioBits)

Min(a, b) == IF a <= b THEN a ELSE b

\* round(n / d) for n >= 0, d > 0: to the nearest integer, a tie to the even one.
PyRound(n, d) ==
    LET q == n \div d
        r == n % d
    IN  IF 2 * r < d THEN q
        ELSE IF 2 * r > d THEN q + 1
        ELSE IF q % 2 = 0 THEN q ELSE q + 1

\* int(n / d) for n >= 0, d > 0: truncation toward zero.
PyInt(n, d) == n \div d

\* The loads tried with Helvetica before Arial Bold.
FontCandidatesSwapped ==
    <<"Helvetica.ttc", "Arial Bold.ttf", "DejaVuSans-Bold.ttf", "load_default">>

\* The loads in the order the nested try blocks make them.
FontCandidates ==
    <<"Arial Bold.ttf", "Helvetica.ttc", "DejaVuSans-Bold.ttf", "load_default">>

\* What a load can do: return a font, raise OSError/IOError (the file is not
\* there or is not a font), or raise anything else.
LoadOutcomes == {"ok", "OSError", "other"}

\* (canvas - extent) // 2, the offset of the box's origin forgotten.
CenterNoOffset(canvas, lo, hi) == (canvas - (hi - lo)) \div 2

\* x = (width - text_width) // 2 - bbox[0], with text_width = bbox[2] - bbox[0]
\* (and the same for y).
CenterBBox(canvas, lo, hi) == (canvas - (hi - lo)) \div 2 - lo

GlyphCoords == (0 - 1)..MaxGlyph
BBoxes == {b \in GlyphCoords \X GlyphCoords \X GlyphCoords \X GlyphCoords :
              b[1] <= b[3] /\ b[2] <= b[4]}

InitGlyph ==
    /\ height \in 1..MaxDim
    /\ width \in 1..MaxDim
    /\ ratio_num \in 1..RatioDen
    /\ font_size = 0
    /\ attempts = <<>>
    /\ font = ""
    /\ api = ""
    /\ bbox = <<>>
    /\ text_size = <<>>
    /\ x = 0
    /\ y = 0
    /\ img_array = <<>>
    /\ gpc = "start"
    /\ IdleMask /\ IdlePanel /\ IdlePipe

\* Lines 38-44: the white canvas and the font size.
ComputeFontSize ==
    /\ gpc = "start"
    /\ font_size' = PyInt(Min(height, width) * ratio_num, RatioDen)
    /\ gpc' = "load"
    /\ UNCHANGED <<height, width, ratio_num, attempts, font, api, bbox, text_size,
                   x, y, img_array>>
    /\ UNCHANGED <<maskVars, panelVars, pipeVars>>

NextCandidate == FontCandidates[Len(attempts) + 1]

\* A load returns a font: the try chain is left with it.
FontLoads ==
    /\ gpc = "load"
    /\ attempts' = Append(attempts, [cand |-> NextCandidate, outcome |-> "ok"])
    /\ font' = NextCandidate
    /\ gpc' = "measure"
    /\ UNCHANGED <<height, width, ratio_num, font_size, api, bbox, text_size,
                   x, y, img_array>>
    /\ UNCHANGED <<maskVars, panelVars, pipeVars>>

\* A truetype load raises OSError/IOError: the except clause goes on to the
\* next candidate.
FontMissing ==
    /\ gpc = "load"
    /\ Len(attempts) < 3
    /\ attempts' = Append(attempts, [cand |-> NextCandidate, outcome |-> "OSError"])
    /\ UNCHANGED <<height, width, ratio_num, font_size, font, api, bbox, text_size,
                   x, y, img_array, gpc>>
    /\ UNCHANGED <<maskVars, panelVars, pipeVars>>

\* A load raises what no except clause catches: any exception of load_default,
\* anything but OSError/IOError of a truetype load.  The call ends with it.
FontFails ==
    /\ gpc = "load"
    /\ \E o \in LoadOutcomes \ {"ok"} :
          /\ (o = "OSError" => Len(attempts) = 3)
          /\ attempts' = Append(attempts, [cand |-> NextCandidate, outcome |-> o])
    /\ gpc' = "error"
    /\ UNCHANGED <<height, width, ratio_num, font_size, font, api, bbox, text_size,
                   x, y, img_array>>
    /\ UNCHANGED <<maskVars, panelVars, pipeVars>>

\* Lines 68-74: draw.textbbox measures the glyph.
MeasureTextBBox ==
    /\ gpc = "measure"
    /\ \E b \in BBoxes :
          /\ bbox' = b
          /\ text_size' = <<b[3] - b[1], b[4] - b[2]>>
          /\ x' = CenterBBox(width, b[1], b[3])
          /\ y' = CenterBBox(height, b[2], b[4])
    /\ api' = "textbbox"
    /\ gpc' = "draw"
    /\ UNCHANGED <<height, width, ratio_num, font_size, attempts, font, img_array>>
    /\ UNCHANGED <<maskVars, panelVars, pipeVars>>

\* Lines 75-81: no textbbox (AttributeError); draw.textsize gives the size.
MeasureTextSize ==
    /\ gpc = "measure"
    /\ \E tw, th \in 0..MaxGlyph :
          /\ text_size' = <<tw, th>>
          /\ x' = (width - tw) \div 2
          /\ y' = (height - th) \div 2
    /\ api' = "textsize"
    /\ gpc' = "draw"
    /\ UNCHANGED <<height, width, ratio_num, font_size, attempts, font, bbox, img_array>>
    /\ UNCHANGED <<maskVars, panelVars, pipeVars>>

\* Lines 82-85: neither call is there; the canvas centre is used.
MeasureNothing ==
    /\ gpc = "measure"
    /\ x' = width \div 2
    /\ y' = height \div 2
    /\ api' = "none"
    /\ gpc' = "draw"
    /\ UNCHANGED <<height, width, ratio_num, font_size, attempts, font, bbox,
                   text_size, img_array>>
    /\ UNCHANGED <<maskVars, panelVars, pipeVars>>

\* Lines 87-99: the glyph is drawn at (x, y) and the canvas is returned as an
\* array of shape (height, width).
DrawAndReturn ==
    /\ gpc = "draw"
    /\ img_array' = <<height, width>>
    /\ gpc' = "done"
    /\ UNCHANGED <<height, width, ratio_num, font_size, attempts, font, api, bbox,
                   text_size, x, y>>
    /\ UNCHANGED <<maskVars, panelVars, pipeVars>>

NextGlyph ==
    \/ ComputeFontSize
    \/ FontLoads
    \/ FontMissing
    \/ FontFails
    \/ MeasureTextBBox
    \/ MeasureTextSize
    \/ MeasureNothing
    \/ DrawAndReturn

SpecGlyph == InitGlyph /\ [][NextGlyph]_vars

\* ---------------------------------------------------------------- claims
\* C6 as stated: the font size requested is min(height, width) *
\* font_size_ratio rounded to the nearest integer.
C6_FontSizeRounded ==
    gpc # "start" => font_size = PyRound(Min(height, width) * ratio_num, RatioDen)

\* C6, amended: the font size requested is min(height, width) *
\* font_size_ratio truncated toward zero (the largest integer not above the
\* product), not rounded to the nearest integer.
C6_FontSizeTruncated ==
    gpc # "start" =>
        /\ font_size * RatioDen <= Min(height, width) * ratio_num
        /\ Min(height, width) * ratio_num < (font_size + 1) * RatioDen

C6_Witness ==
    /\ gpc = "done"
    /\ 2 * ((Min(height, width) * ratio_num) % RatioDen) > RatioDen
    /\ font_size >= 1

\* C7: the fonts are tried in the fixed order Arial Bold, Helvetica,
\* DejaVuSans-Bold, built-in default; a candidate is tried only after every
\* earlier one failed; the font drawn with is the first that loaded; and when
\* none loads the call ends in an error and returns no canvas.
C7_FontFallbackOrder ==
    /\ Len(attempts) <= 4
    /\ \A i \in 1..Len(attempts) :
          /\ attempts[i].cand =
                <<"Arial Bold.ttf", "Helvetica.ttc", "DejaVuSans-Bold.ttf", "load_default">>[i]
          /\ \A j \in 1..(i - 1) : attempts[j].outcome # "ok"
    /\ (gpc \in {"measure", "draw", "done"} =>
          /\ attempts # <<>>
          /\ attempts[Len(attempts)].outcome = "ok"
          /\ font = attempts[Len(attempts)].cand)
    /\ ((attempts # <<>> /\ attempts[Len(attempts)].outcome # "ok" /\ gpc # "load") =>
          gpc = "error")
    /\ (Len(attempts) = 4 /\ attempts[4].outcome # "ok" => gpc = "error")
    /\ (gpc = "error" => img_array = <<>> /\ font = "")
    /\ (img_array # <<>> => font # "")

C7_Witness ==
    /\ gpc = "done"
    /\ Len(attempts) = 4
    /\ attempts[3].outcome = "OSError"
    /\ font = "load_default"
    /\ img_array = <<height, width>>

\* C10: when the glyph is measured with its bounding box (left, top, right,
\* bottom), the draw position puts the glyph's left edge at
\* floor((width - glyph_width) / 2) and its top edge at
\* floor((height - glyph_height) / 2), whatever the box's offset from the
\* origin, so opposite margins differ by at most one pixel.
C10_GlyphCentered ==
    (gpc \in {"draw", "done"} /\ api = "textbbox") =>
        LET gw == bbox[3] - bbox[1]
            gh == bbox[4] - bbox[2]
            leftM == x + bbox[1]
            rightM == width - (x + bbox[3])
            topM == y + bbox[2]
            bottomM == height - (y + bbox[4])
        IN  /\ 2 * leftM <= width - gw /\ width - gw < 2 * (leftM + 1)
            /\ 2 * topM <= height - gh /\ height - gh < 2 * (topM + 1)
            /\ rightM - leftM \in {0, 1}
            /\ bottomM - topM \in {0, 1}

C10_Witness ==
    /\ gpc = "done"
    /\ api = "textbbox"
    /\ bbox[1] > 0 /\ bbox[2] < 0
    /\ (width - (bbox[3] - bbox[1])) % 2 = 1
    /\ height < bbox[4] - bbox[2]
    /\ bbox[3] > bbox[1]

\* =====================================================================
\* Panel Composer: create_meme.py
\* =====================================================================
PanelShapes == (1..MaxDim) \X (1..MaxDim)
PRefs == 1..8
NoPanel == [shape |-> <<>>, from |-> 0]

\* A panel array: its shape, and the caller's array its pixels come from.
PanelArr(s, r) == [shape |-> s, from |-> r]

\* Image.fromarray(a): a PIL image; its size is (width, height).
FromArray(a) == [size |-> <<a.shape[2], a.shape[1]>>, from |-> a.from]

\* img.resize(size, LANCZOS): a new image of the size asked for.
PilResize(im, size) == [size |-> size, from |-> im.from]

\* np.array(img) / 255.0: an array of shape (img height, img width).
ToArray(im) == [shape |-> <<im.size[2], im.size[1]>>, from |-> im.from]

\* img_pil.resize((h, w)): the two arguments exchanged.
ResizedPanelSwapped(a, h, w) == ToArray(PilResize(FromArray(a), <<h, w>>))

\* Lines 66-68: fromarray, resize((w, h)), back to an array.
ResizedPanel(a, h, w) == ToArray(PilResize(FromArray(a), <<w, h>>))

FreshPanel(hp) == CHOOSE r \in PRefs : hp[r] = NoPanel /\ \A q \in PRefs : q < r => hp[q] # NoPanel

Labels == <<"Reality", "Your Model", "Selection Bias", "Estimate">>

\* The caller holds four 2D arrays (references 1..4) of any shapes.
InitPanel ==
    /\ \E s \in [1..4 -> PanelShapes] :
          pheap = [r \in PRefs |-> IF r <= 4 THEN PanelArr(s[r], r) ELSE NoPanel]
    /\ images = <<>>
    /\ ref_shape = <<>>
    /\ pidx = 0
    /\ warnings = <<>>
    /\ plotted = <<>>
    /\ saved = FALSE
    /\ ppc = "start"
    /\ IdleMask /\ IdleGlyph /\ IdlePipe

\* Lines 54-58: h, w = original_img.shape; the local list of the panels.
PanelEnter ==
    /\ ppc = "start"
    /\ ref_shape' = pheap[1].shape
    /\ images' = <<1, 2, 3, 4>>
    /\ pidx' = 1
    /\ ppc' = "check"
    /\ UNCHANGED <<pheap, warnings, plotted, saved>>
    /\ UNCHANGED <<maskVars, glyphVars, pipeVars>>

\* Lines 61-62: img.shape == (h, w); the panel is kept.
PanelKeep ==
    /\ ppc = "check"
    /\ pidx <= 4
    /\ pheap[images[pidx]].shape = ref_shape
    /\ pidx' = pidx + 1
    /\ UNCHANGED <<pheap, images, ref_shape, warnings, plotted, saved, ppc>>
    /\ UNCHANGED <<maskVars, glyphVars, pipeVars>>

\* Lines 62-68: img.shape != (h, w); a warning, and images[i] becomes a new,
\* resized array.
PanelResize ==
    /\ ppc = "check"
    /\ pidx <= 4
    /\ pheap[images[pidx]].shape # ref_shape
    /\ warnings' = Append(warnings, Labels[pidx])
    /\ LET n == FreshPanel(pheap)
       IN  /\ pheap' = [pheap EXCEPT ![n] =
                           ResizedPanel(pheap[images[pidx]], ref_shape[1], ref_shape[2])]
           /\ images' = [images EXCEPT ![pidx] = n]
    /\ pidx' = pidx + 1
    /\ UNCHANGED <<ref_shape, plotted, saved, ppc>>
    /\ UNCHANGED <<maskVars, glyphVars, pipeVars>>

\* Lines 70-118: the four panels are plotted in order and the figure is saved.
PanelRender ==
    /\ ppc = "check"
    /\ pidx = 5
    /\ plotted' = [i \in 1..4 |-> pheap[images[i]].shape]
    /\ saved' = TRUE
    /\ ppc' = "done"
    /\ UNCHANGED <<pheap, images, ref_shape, pidx, warnings>>
    /\ UNCHANGED <<maskVars, glyphVars, pipeVars>>

NextPanel == PanelEnter \/ PanelKeep \/ PanelResize \/ PanelRender

SpecPanel == InitPanel /\ [][NextPanel]_vars

\* ---------------------------------------------------------------- claims
RECURSIVE MismatchedLabels(_)
\* The labels of the caller's panels 1..n whose shape is not the first one's.
MismatchedLabels(n) ==
    IF n = 0 THEN <<>>
    ELSE IF pheap[n].shape # pheap[1].shape
         THEN Append(MismatchedLabels(n - 1), Labels[n])
         ELSE MismatchedLabels(n - 1)

\* C9: a panel whose shape differs from the original image's (h, w) is no
\* error: it gets a warning and is replaced by a resized image of shape
\* (h, w); a panel that matches is left as it is; the four panels laid out
\* all have shape (h, w); the caller's arrays are not modified.
C9_State ==
    /\ (ppc # "start" => ref_shape = pheap[1].shape)
    /\ (ppc \in {"check", "done"} =>
          /\ warnings = MismatchedLabels(pidx - 1)
          /\ \A i \in 1..(pidx - 1) :
                /\ pheap[images[i]].shape = pheap[1].shape
                /\ pheap[images[i]].from = i
                /\ (pheap[i].shape = pheap[1].shape => images[i] = i)
                /\ (pheap[i].shape # pheap[1].shape => images[i] > 4))
    /\ (ppc = "done" =>
          /\ saved
          /\ plotted = [i \in 1..4 |-> pheap[1].shape])

C9_PanelsRepaired ==
    /\ []C9_State
    /\ [][\A r \in 1..4 : pheap'[r] = pheap[r]]_vars

C9_Witness ==
    /\ ppc = "done"
    /\ saved
    /\ pheap[1].shape[1] # pheap[1].shape[2]
    /\ pheap[2].shape = pheap[1].shape
    /\ pheap[3].shape = <<pheap[1].shape[2], pheap[1].shape[1]>>
    /\ pheap[4].shape # pheap[1].shape
    /\ warnings = <<"Selection Bias", "Estimate">>
    /\ images[2] = 2

\* =====================================================================
\* The script: generate_meme.py
\* =====================================================================
\* The five calls of the script, in the order of its statements.
Stages == <<"prepare_image", "create_stipple", "create_block_letter_s",
            "create_masked_stipple", "create_statistics_meme">>

StageIndex(s) == CHOOSE i \in 1..5 : Stages[i] = s

At(s, where) == [stage |-> s, at |-> where]

\* After the statement that calls stage s: the next call, or the closing
\* prints of the script.
AfterReturn(s) ==
    IF StageIndex(s) < 5 THEN At(Stages[StageIndex(s) + 1], "before")
    ELSE At("", "success")

\* The call wrapped in "try: ... except Exception: pass": the script goes on.
PropagateSwallowed(s) == AfterReturn(s)

\* No statement of the script is inside a try block: an exception raised by
\* a stage ends the script there.
Propagate(s) == At(s, "aborted")

InitPipe ==
    /\ spc = At("prepare_image", "before")
    /\ started = <<>>
    /\ completed = {}
    /\ failed = ""
    /\ gray_image = <<>>
    /\ stipple_pattern = <<>>
    /\ block_letter = <<>>
    /\ masked = <<>>
    /\ output_written = FALSE
    /\ IdleMask /\ IdleGlyph /\ IdlePanel

\* The script reaches the statement calling a stage and enters it.
CallStage ==
    /\ spc.at = "before"
    /\ started' = Append(started, spc.stage)
    /\ spc' = At(spc.stage, "running")
    /\ UNCHANGED <<completed, failed, gray_image, stipple_pattern, block_letter,
                   masked, output_written>>
    /\ UNCHANGED <<maskVars, glyphVars, panelVars>>

\* Line 16: prepare_image returns the grayscale image.
ReturnPrepareImage ==
    /\ spc = At("prepare_image", "running")
    /\ gray_image' \in PanelShapes
    /\ completed' = completed \cup {spc.stage}
    /\ spc' = AfterReturn(spc.stage)
    /\ UNCHANGED <<started, failed, stipple_pattern, block_letter, masked, output_written>>
    /\ UNCHANGED <<maskVars, glyphVars, panelVars>>

\* Lines 23-28: create_stipple returns the stipple image.  Its module is not
\* among the sources at hand, so the shape it returns is left open (the
\* image's shape is one of the possibilities).
ReturnCreateStipple ==
    /\ spc = At("create_stipple", "running")
    /\ stipple_pattern' \in PanelShapes
    /\ completed' = completed \cup {spc.stage}
    /\ spc' = AfterReturn(spc.stage)
    /\ UNCHANGED <<started, failed, gray_image, block_letter, masked, output_written>>
    /\ UNCHANGED <<maskVars, glyphVars, panelVars>>

\* Lines 35-41: h, w = gray_image.shape; the letter canvas has shape (h, w).
ReturnBlockLetter ==
    /\ spc = At("create_block_letter_s", "running")
    /\ block_letter' = <<gray_image[1], gray_image[2]>>
    /\ completed' = completed \cup {spc.stage}
    /\ spc' = AfterReturn(spc.stage)
    /\ UNCHANGED <<started, failed, gray_image, stipple_pattern, masked, output_written>>
    /\ UNCHANGED <<maskVars, glyphVars, panelVars>>

\* Lines 48-52: the masked stipple, of the stipple's shape; returned only
\* when stipple and mask have one shape (step5_create_masked.py line 47;
\* otherwise the call can only raise).
ReturnMaskedStipple ==
    /\ spc = At("create_masked_stipple", "running")
    /\ stipple_pattern = block_letter
    /\ masked' = stipple_pattern
    /\ completed' = completed \cup {spc.stage}
    /\ spc' = AfterReturn(spc.stage)
    /\ UNCHANGED <<started, failed, gray_image, stipple_pattern, block_letter, output_written>>
    /\ UNCHANGED <<maskVars, glyphVars, panelVars>>

\* Lines 59-67: create_statistics_meme returns; savefig has written
\* statistics_meme.png.
ReturnStatisticsMeme ==
    /\ spc = At("create_statistics_meme", "running")
    /\ output_written' = TRUE
    /\ completed' = completed \cup {spc.stage}
    /\ spc' = AfterReturn(spc.stage)
    /\ UNCHANGED <<started, failed, gray_image, stipple_pattern, block_letter, masked>>
    /\ UNCHANGED <<maskVars, glyphVars, panelVars>>

\* The running stage raises (an unreadable image, no font at all, a shape
\* mismatch, an unwritable output path, ...) before it has produced its
\* result; the Panel Composer raises at or before savefig.
StageRaises ==
    /\ spc.at = "running"
    /\ failed' = spc.stage
    /\ spc' = Propagate(spc.stage)
    /\ UNCHANGED <<started, completed, gray_image, stipple_pattern, block_letter,
                   masked, output_written>>
    /\ UNCHANGED <<maskVars, glyphVars, panelVars>>

NextPipe ==
    \/ CallStage
    \/ ReturnPrepareImage
    \/ ReturnCreateStipple
    \/ ReturnBlockLetter
    \/ ReturnMaskedStipple
    \/ ReturnStatisticsMeme
    \/ StageRaises

SpecPipe == InitPipe /\ [][NextPipe]_vars

====
